---------------------------- MODULE Spec2Model ----------------------------
(***************************************************************************)
(* Image moderation service: ModerationService.moderate_image and the two  *)
(* detectors it drives (NudityDetector, DrugsDetector).                    *)
(*                                                                         *)
(* Fixed-point arithmetic.  The program computes with floats in [0,1]:     *)
(*   - NudeNet detection scores are held in thousandths   (1.0 = 1000),    *)
(*   - drug raw signals and skin exposure in ten-thousandths (1.0 = 10000),*)
(*   - confidences in units of 10^-7                  (1.0 = 10000000),    *)
(* so that every product of a signal, a weight and a boost is an integer.  *)
(***************************************************************************)
EXTENDS Integers, Sequences, FiniteSets, TLC

(***************************************************************************)
(* Bounds of the model.                                                    *)
(***************************************************************************)
\* longest list of detections NudeNet reports for one image
MaxDetections == 2

\* the worker processes that serve requests; they share one working directory
Workers == {1, 2}

(***************************************************************************)
(* Numbers of the program.                                                 *)
(***************************************************************************)
\* confidence 1.0 (upper limit of ModerationCategory.confidence)
One == 10000000

\* the fixed confidence of every fallback path, 0.05
FallbackConfidence == 500000

\* ModerationService.categories
Categories == <<"nudity", "drugs">>

Min(a, b) == IF a <= b THEN a ELSE b

Max(a, b) == IF a >= b THEN a ELSE b

(***************************************************************************)
(* Inputs: an uploaded byte buffer, described by what the libraries make   *)
(* of it.                                                                  *)
(*   dec    how far the bytes decode: "badhdr" (Image.open raises),        *)
(*          "trunc" (header opens, pixel data does not load), or the mode  *)
(*          of a fully decodable image: "rgb", "gray" (mode L), "rgba"     *)
(*   nn     what NudeDetector.detect does on the JPEG of this image:       *)
(*          raises, or returns a list of detections (class, score)         *)
(*   skin_ratio, aspect   share of skin-coloured pixels (thousandths) and  *)
(*          height/width (hundredths) of the JPEG of this image            *)
(*   drug   what the drug extractors measure on the image (see below)      *)
(***************************************************************************)
nude_classes ==
    {"EXPOSED_ANUS", "ARMPITS_EXPOSED", "BELLY_EXPOSED", "FEMALE_BREAST_EXPOSED",
     "MALE_BREAST_EXPOSED", "BUTTOCKS_EXPOSED", "FEMALE_GENITALIA_EXPOSED",
     "MALE_GENITALIA_EXPOSED", "THIGHS_EXPOSED"}

safe_classes ==
    {"FEMALE_BREAST_COVERED", "MALE_BREAST_COVERED", "BUTTOCKS_COVERED",
     "FEMALE_GENITALIA_COVERED", "MALE_GENITALIA_COVERED", "FACE_FEMALE",
     "FACE_MALE", "HAND", "FOOT_EXPOSED", "ARM", "LEG"}

DetKinds ==
    {[class |-> "FEMALE_BREAST_EXPOSED", score |-> 300],
     [class |-> "BUTTOCKS_EXPOSED", score |-> 900],
     [class |-> "FACE_FEMALE", score |-> 900]}

DetectionLists == UNION {[1..n -> DetKinds] : n \in 0..MaxDetections}

NudeNetOutcomes ==
    {[raises |-> TRUE, detections |-> <<>>]}
    \cup {[raises |-> FALSE, detections |-> d] : d \in DetectionLists}

SkinProfiles ==
    {[skin_ratio |-> 0, aspect |-> 100],
     [skin_ratio |-> 500, aspect |-> 150],
     [skin_ratio |-> 200, aspect |-> 60]}

\* whether this build's cv2.countNonZero accepts the boolean mask NumPy
\* makes of a comparison (diff < 15); where it does not, the call raises and
\* the method that made it returns 0.0 from its except clause
VARIABLE BOOL_MASKS_ACCEPTED

\* what the drug extractors measure on an image, ratios and confidences in
\* ten-thousandths:
\*   raises        np.array / cvtColor raises in analyze_image
\*   skin, smoothness, organic      measurements of _detect_nudity_context
\*   circles       circles validated as pill-like (-1: HoughCircles found none)
\*   blobs, shapes                  _detect_pill_blobs, _detect_pill_shapes
\*   pill_color_ratio, powder_ratio, green_ratio   share of matching pixels
\*   variance      variance of the Laplacian of the grey image
\*   powder_smooth, bright          ratios of _analyze_powder_texture
\*   patterns, leaf                 _analyze_powder_patterns, _detect_leaf_patterns
\*   paraphernalia                  _detect_paraphernalia_advanced
\*   fails         the extractor whose own code raises, "none" if none does
NoDrugSignals ==
    [raises |-> FALSE, fails |-> "none", skin |-> 0, smoothness |-> 0, organic |-> 0,
     circles |-> -1, blobs |-> 0, shapes |-> 0, pill_color_ratio |-> 0,
     variance |-> 2000, powder_smooth |-> 0, bright |-> 0, powder_ratio |-> 0,
     patterns |-> 0, green_ratio |-> 0, leaf |-> 0, paraphernalia |-> 0]

\* one valid circle, some pill colour, leaves and a syringe: pills 0.28,
\* plants 0.7, paraphernalia 0.8, which fuse to exactly 0.5
FusesToThreshold ==
    [NoDrugSignals EXCEPT !.circles = 1, !.shapes = 3000,
                          !.pill_color_ratio = 1750, !.variance = 1000,
                          !.green_ratio = 7000, !.leaf = 7000,
                          !.paraphernalia = 8000]

\* forty pills: every pill method at its maximum
ManyPills ==
    [NoDrugSignals EXCEPT !.circles = 40, !.blobs = 9000, !.shapes = 6000,
                          !.pill_color_ratio = 7000]

\* thirty validated circles found by the Hough transform and by the contour
\* analysis only
ThirtyCircles == [NoDrugSignals EXCEPT !.circles = 30, !.shapes = 6000]

\* a green area: plants 0.32
GreenArea == [NoDrugSignals EXCEPT !.green_ratio = 7000]

\* leaves, texture and a syringe: plants 0.7, paraphernalia 0.8
PlantsAndSyringe ==
    [NoDrugSignals EXCEPT !.variance = 1000, !.green_ratio = 7000,
                          !.leaf = 7000, !.paraphernalia = 8000]

DrugProfiles ==
    {NoDrugSignals,
     [NoDrugSignals EXCEPT !.raises = TRUE],
     FusesToThreshold,
     \* reaches the 0.98 ceiling
     [ManyPills EXCEPT !.variance = 1000, !.green_ratio = 7000, !.leaf = 7000,
                       !.paraphernalia = 8000],
     \* the same on skin: three weak signals after the penalty
     [ManyPills EXCEPT !.variance = 1000, !.green_ratio = 7000, !.leaf = 7000,
                       !.paraphernalia = 8000, !.skin = 4000],
     \* one strong signal; one strong and one moderate
     ManyPills,
     [ManyPills EXCEPT !.green_ratio = 7000],
     \* one moderate signal; two moderate signals
     ThirtyCircles,
     [ThirtyCircles EXCEPT !.green_ratio = 7000],
     \* signals on the class boundaries: pills 0.3, plants 0.6
     [GreenArea EXCEPT !.leaf = 7000, !.blobs = 7000, !.shapes = 3000,
                       !.pill_color_ratio = 1500],
     \* skin at the limits of the context rule
     [PlantsAndSyringe EXCEPT !.skin = 3000, !.organic = 3000],
     [PlantsAndSyringe EXCEPT !.skin = 2000, !.smoothness = 6000],
     [PlantsAndSyringe EXCEPT !.skin = 2500, !.organic = 4000],
     [PlantsAndSyringe EXCEPT !.skin = 1500, !.smoothness = 9000,
                              !.organic = 9000]}

\* images on which one extractor raises outside its helper methods
FailingProfiles ==
    {[ManyPills EXCEPT !.variance = 1000, !.green_ratio = 7000, !.leaf = 7000,
                       !.paraphernalia = 8000, !.fails = "pills"],
     [ManyPills EXCEPT !.powder_ratio = 7000, !.fails = "powder"],
     [PlantsAndSyringe EXCEPT !.fails = "plants"],
     [PlantsAndSyringe EXCEPT !.fails = "paraphernalia"],
     \* on skin: the remaining signals are cut
     [PlantsAndSyringe EXCEPT !.skin = 4000, !.fails = "plants"]}

(***************************************************************************)
(* NudityDetector (src/app/nudity_detector.py)                             *)
(***************************************************************************)
RECURSIVE SumScores(_)
SumScores(parts) ==
    IF parts = <<>> THEN 0 ELSE Head(parts).score + SumScores(Tail(parts))

\* the detections the loop of _detailed_analysis appends to nude_parts
NudeParts(detections) ==
    SelectSeq(detections, LAMBDA d : d.class \in nude_classes /\ d.score > 250)

\* mutant of boosted_confidence: the average without the boost
boosted_confidence_plain(detections) ==
    LET num_detections   == Len(NudeParts(detections))
        total_confidence == SumScores(NudeParts(detections))
    IN  Min(One, (total_confidence * 10000) \div num_detections)

\* min(1.0, avg_confidence * (1 + 0.1 * (num_detections - 1)))
boosted_confidence(detections) ==
    LET num_detections   == Len(NudeParts(detections))
        total_confidence == SumScores(NudeParts(detections))
    IN  Min(One, (total_confidence * (10 + (num_detections - 1)) * 1000)
                   \div num_detections)

\* mutant of nudity_fallback_analysis: a fallback confidence of 0.5
nudity_fallback_analysis_half ==
    [method |-> "fallback", is_nude |-> FALSE, confidence |-> 5000000]

\* NudityDetector._fallback_analysis
nudity_fallback_analysis ==
    [method |-> "fallback", is_nude |-> FALSE, confidence |-> FallbackConfidence]

\* the dict _detailed_analysis returns, given the boosted confidence
detector_result(confidence) ==
    [method |-> "detector", is_nude |-> confidence > 3000000,
     confidence |-> confidence]

(***************************************************************************)
(* The file temp_image.jpg in the working directory: absent, created but   *)
(* still empty, or holding the JPEG of an image.                           *)
(***************************************************************************)
NoFile == [state |-> "absent"]

EmptyFile == [state |-> "empty"]

\* image.save(temp_path, "JPEG"): the JPEG keeps what NudeNet and the skin
\* analysis read, in mode L or RGB; the drug attributes are not read from it
JpegOf(image) ==
    [state |-> "jpeg", nn |-> image.nn, skin_ratio |-> image.skin_ratio,
     aspect |-> image.aspect,
     mode |-> IF image.dec = "gray" THEN "L" ELSE "RGB"]

Readable(file) == file.state = "jpeg"

\* NudityDetector._calculate_skin_exposure, in ten-thousandths
calculate_skin_exposure(file) ==
    LET boosted ==
            IF file.skin_ratio > 300
            THEN IF 120 <= file.aspect /\ file.aspect <= 250
                 THEN file.skin_ratio * 13
                 ELSE IF 40 <= file.aspect /\ file.aspect <= 80
                      THEN file.skin_ratio * 11
                      ELSE file.skin_ratio * 10
            ELSE file.skin_ratio * 10
    IN  Min(10000, boosted)

\* NudityDetector._backup_skin_detection: reads the file again
backup_skin_detection(file) ==
    IF ~Readable(file) THEN 0
    ELSE IF file.mode = "RGB"
         THEN LET skin_confidence == calculate_skin_exposure(file)
              IN  IF skin_confidence > 4000
                  THEN Min(8000000, skin_confidence * 1000)
                  ELSE skin_confidence * 500
         ELSE 0

(***************************************************************************)
(* DrugsDetector (src/app/drugs_detector.py)                               *)
(***************************************************************************)
\* DrugsDetector._fallback_analysis
drugs_fallback_analysis ==
    [method |-> "fallback", is_drugs |-> FALSE, confidence |-> FallbackConfidence]

DrugKeys == {"pills", "powder", "plants", "paraphernalia"}

\* DrugsDetector._detect_body_smoothness: cv2.countNonZero(diff < 15)
detect_body_smoothness(drug) ==
    IF BOOL_MASKS_ACCEPTED THEN drug.smoothness ELSE 0

\* mutant of detect_nudity_context: some skin and organic shapes do not count
detect_nudity_context_no_organic(drug) ==
    LET skin_ratio       == drug.skin
        smoothness_ratio == detect_body_smoothness(drug)
    IN  \/ skin_ratio > 3000
        \/ (skin_ratio > 1500 /\ smoothness_ratio > 5000)

\* DrugsDetector._detect_nudity_context
detect_nudity_context(drug) ==
    LET skin_ratio       == drug.skin
        smoothness_ratio == detect_body_smoothness(drug)
        organic_shapes   == drug.organic
    IN  \/ skin_ratio > 3000
        \/ (skin_ratio > 1500 /\ smoothness_ratio > 5000)
        \/ (skin_ratio > 2000 /\ organic_shapes > 3000)

\* DrugsDetector._detect_circular_objects, from the number of validated circles
detect_circular_objects(valid_circles) ==
    IF valid_circles < 0 THEN 0
    ELSE IF valid_circles >= 30 THEN Min(9800, 8000 + valid_circles * 50)
    ELSE IF valid_circles >= 20 THEN Min(9500, 7000 + valid_circles * 100)
    ELSE IF valid_circles >= 10 THEN Min(9000, 6000 + valid_circles * 200)
    ELSE IF valid_circles >= 5 THEN Min(8500, 5000 + valid_circles * 500)
    ELSE IF valid_circles >= 3 THEN Min(7500, 4000 + valid_circles * 800)
    ELSE IF valid_circles >= 1 THEN Min(6500, 3000 + valid_circles * 1500)
    ELSE 2000

\* DrugsDetector._detect_pill_colors, from the share of pill-coloured pixels
detect_pill_colors(color_ratio) ==
    IF color_ratio > 3000 THEN Min(7000, (color_ratio * 15) \div 10)
    ELSE IF color_ratio > 1000 THEN color_ratio * 2
    ELSE 0

\* DrugsDetector._detect_pills_advanced
detect_pills_advanced(drug) ==
    LET circles_confidence == detect_circular_objects(drug.circles)
        blobs_confidence   == drug.blobs
        color_confidence   == detect_pill_colors(drug.pill_color_ratio)
        shape_confidence   == drug.shapes
    IN  IF drug.fails = "pills" THEN 0
        ELSE Min(10000, (circles_confidence * 4 + blobs_confidence * 3
                         + color_confidence * 2 + shape_confidence * 1) \div 10)

\* DrugsDetector._analyze_powder_texture: cv2.countNonZero(smoothness < 10)
analyze_powder_texture(drug) ==
    LET from_variance ==
            IF 20 < drug.variance /\ drug.variance < 300
            THEN Min(7000, (drug.variance * 10000) \div 300)
            ELSE IF drug.variance < 20 THEN 8000 ELSE 0
        from_smoothness ==
            IF drug.powder_smooth > 6000 THEN 6000
            ELSE IF drug.powder_smooth > 4000 THEN 4000
            ELSE IF drug.powder_smooth > 2000 THEN 2000 ELSE 0
        from_bright ==
            IF drug.bright > 3000 THEN Min(8000, drug.bright * 2)
            ELSE IF drug.bright > 1000 THEN Min(5000, drug.bright * 3) ELSE 0
    IN  IF BOOL_MASKS_ACCEPTED
        THEN Min(9000, from_variance + from_smoothness + from_bright)
        ELSE 0

\* DrugsDetector._analyze_powder_colors, from the largest share of a powder colour
analyze_powder_colors(powder_ratio) ==
    IF powder_ratio > 6000 THEN Min(9500, (powder_ratio * 13) \div 10)
    ELSE IF powder_ratio > 4000 THEN Min(8500, (powder_ratio * 18) \div 10)
    ELSE IF powder_ratio > 2000 THEN Min(7500, (powder_ratio * 25) \div 10)
    ELSE IF powder_ratio > 1000 THEN Min(6000, powder_ratio * 4)
    ELSE IF powder_ratio > 500 THEN Min(4000, powder_ratio * 6)
    ELSE 0

\* DrugsDetector._analyze_powder_patterns: cv2.countNonZero(diff > 5)
analyze_powder_patterns(drug) ==
    IF BOOL_MASKS_ACCEPTED THEN drug.patterns ELSE 0

\* DrugsDetector._detect_powder_advanced
detect_powder_advanced(drug) ==
    LET texture_confidence == analyze_powder_texture(drug)
        color_confidence   == analyze_powder_colors(drug.powder_ratio)
        pattern_confidence == analyze_powder_patterns(drug)
    IN  IF drug.fails = "powder" THEN 0
        ELSE Min(10000, (texture_confidence * 5 + color_confidence * 3
                         + pattern_confidence * 2) \div 10)

\* DrugsDetector._analyze_plant_colors, from the largest share of a green range
analyze_plant_colors(max_green_ratio) ==
    IF max_green_ratio > 5000 THEN Min(8000, (max_green_ratio * 12) \div 10)
    ELSE IF max_green_ratio > 3000 THEN max_green_ratio
    ELSE 0

\* DrugsDetector._analyze_plant_texture
analyze_plant_texture(texture_var) ==
    IF 200 < texture_var /\ texture_var < 2000
    THEN Min(6000, (texture_var * 10000) \div 2000)
    ELSE 0

\* DrugsDetector._detect_plants_advanced
detect_plants_advanced(drug) ==
    LET green_confidence   == analyze_plant_colors(drug.green_ratio)
        leaf_confidence    == drug.leaf
        texture_confidence == analyze_plant_texture(drug.variance)
    IN  IF drug.fails = "plants" THEN 0
        ELSE Min(10000, (green_confidence * 4 + leaf_confidence * 4
                         + texture_confidence * 2) \div 10)

\* DrugsDetector._detect_paraphernalia_advanced: the largest of its methods
detect_paraphernalia_advanced(drug) ==
    IF drug.fails = "paraphernalia" THEN 0 ELSE Min(10000, drug.paraphernalia)

\* mutant of calculate_overall_confidence: a single moderate signal is
\* boosted like two
calculate_overall_confidence_one_moderate(detections) ==
    LET weighted_sum ==
            detections.pills * 50 + detections.powder * 35
            + detections.plants * 10 + detections.paraphernalia * 5
        strong_indicators   ==
            Cardinality({k \in DrugKeys : detections[k] > 6000})
        moderate_indicators ==
            Cardinality({k \in DrugKeys :
                            3000 < detections[k] /\ detections[k] <= 6000})
        weak_indicators     ==
            Cardinality({k \in DrugKeys :
                            1000 < detections[k] /\ detections[k] <= 3000})
        boost ==
            IF strong_indicators >= 2 THEN 20
            ELSE IF strong_indicators >= 1 /\ moderate_indicators >= 1 THEN 18
            ELSE IF strong_indicators >= 1 THEN 16
            ELSE IF moderate_indicators >= 1 THEN 14
            ELSE IF weak_indicators >= 3 THEN 11
            ELSE 10
    IN  Min(9800000, weighted_sum * boost)

\* mutant of calculate_overall_confidence: a strong signal on its own is
\* not boosted
calculate_overall_confidence_no_strong_rule(detections) ==
    LET weighted_sum ==
            detections.pills * 50 + detections.powder * 35
            + detections.plants * 10 + detections.paraphernalia * 5
        strong_indicators   ==
            Cardinality({k \in DrugKeys : detections[k] > 6000})
        moderate_indicators ==
            Cardinality({k \in DrugKeys :
                            3000 < detections[k] /\ detections[k] <= 6000})
        weak_indicators     ==
            Cardinality({k \in DrugKeys :
                            1000 < detections[k] /\ detections[k] <= 3000})
        boost ==
            IF strong_indicators >= 2 THEN 20
            ELSE IF strong_indicators >= 1 /\ moderate_indicators >= 1 THEN 18
            ELSE IF moderate_indicators >= 2 THEN 14
            ELSE IF moderate_indicators >= 1 THEN 12
            ELSE IF weak_indicators >= 3 THEN 11
            ELSE 10
    IN  Min(9800000, weighted_sum * boost)

\* mutant of calculate_overall_confidence: the weights of powder and plants
\* are exchanged
calculate_overall_confidence_swapped(detections) ==
    LET weighted_sum ==
            detections.pills * 50 + detections.powder * 10
            + detections.plants * 35 + detections.paraphernalia * 5
        strong_indicators   ==
            Cardinality({k \in DrugKeys : detections[k] > 6000})
        moderate_indicators ==
            Cardinality({k \in DrugKeys :
                            3000 < detections[k] /\ detections[k] <= 6000})
        weak_indicators     ==
            Cardinality({k \in DrugKeys :
                            1000 < detections[k] /\ detections[k] <= 3000})
        boost ==
            IF strong_indicators >= 2 THEN 20
            ELSE IF strong_indicators >= 1 /\ moderate_indicators >= 1 THEN 18
            ELSE IF strong_indicators >= 1 THEN 16
            ELSE IF moderate_indicators >= 2 THEN 14
            ELSE IF moderate_indicators >= 1 THEN 12
            ELSE IF weak_indicators >= 3 THEN 11
            ELSE 10
    IN  Min(9800000, weighted_sum * boost)

\* DrugsDetector._calculate_overall_confidence
calculate_overall_confidence(detections) ==
    LET weighted_sum ==
            detections.pills * 50 + detections.powder * 35
            + detections.plants * 10 + detections.paraphernalia * 5
        strong_indicators   ==
            Cardinality({k \in DrugKeys : detections[k] > 6000})
        moderate_indicators ==
            Cardinality({k \in DrugKeys :
                            3000 < detections[k] /\ detections[k] <= 6000})
        weak_indicators     ==
            Cardinality({k \in DrugKeys :
                            1000 < detections[k] /\ detections[k] <= 3000})
        boost ==
            IF strong_indicators >= 2 THEN 20
            ELSE IF strong_indicators >= 1 /\ moderate_indicators >= 1 THEN 18
            ELSE IF strong_indicators >= 1 THEN 16
            ELSE IF moderate_indicators >= 2 THEN 14
            ELSE IF moderate_indicators >= 1 THEN 12
            ELSE IF weak_indicators >= 3 THEN 11
            ELSE 10
    IN  Min(9800000, weighted_sum * boost)

\* mutant of Penalised: the penalty halves the confidence
Penalised_half(is_likely_nudity, confidence) ==
    IF is_likely_nudity THEN confidence \div 2 ELSE confidence

\* the nudity-context penalty of _comprehensive_analysis: confidence *= 0.3
Penalised(is_likely_nudity, confidence) ==
    IF is_likely_nudity THEN (confidence * 3) \div 10 ELSE confidence

\* mutant of comprehensive_analysis: an extractor that raises ends the
\* analysis in the fallback
comprehensive_analysis_escalate(drug) ==
    IF drug.fails # "none" THEN drugs_fallback_analysis
    ELSE LET is_likely_nudity == detect_nudity_context(drug)
             detections ==
                 [pills  |-> Penalised(is_likely_nudity, detect_pills_advanced(drug)),
                  powder |-> Penalised(is_likely_nudity, detect_powder_advanced(drug)),
                  plants |-> Penalised(is_likely_nudity, detect_plants_advanced(drug)),
                  paraphernalia |->
                      Penalised(is_likely_nudity, detect_paraphernalia_advanced(drug))]
             overall_confidence == calculate_overall_confidence(detections)
         IN  [method |-> "ai_detection", is_drugs |-> overall_confidence > 5000000,
              confidence |-> overall_confidence, detections |-> detections,
              nudity_context_detected |-> is_likely_nudity]

\* DrugsDetector._comprehensive_analysis
comprehensive_analysis(drug) ==
    LET is_likely_nudity == detect_nudity_context(drug)
        detections ==
            [pills  |-> Penalised(is_likely_nudity, detect_pills_advanced(drug)),
             powder |-> Penalised(is_likely_nudity, detect_powder_advanced(drug)),
             plants |-> Penalised(is_likely_nudity, detect_plants_advanced(drug)),
             paraphernalia |->
                 Penalised(is_likely_nudity, detect_paraphernalia_advanced(drug))]
        overall_confidence == calculate_overall_confidence(detections)
    IN  [method |-> "ai_detection", is_drugs |-> overall_confidence > 5000000,
         confidence |-> overall_confidence, detections |-> detections,
         nudity_context_detected |-> is_likely_nudity]

\* DrugsDetector.analyze_image: loading the pixels (np.array) or converting
\* them to BGR may raise; every exception ends in the fallback
drugs_analyze_image(models_available, image) ==
    IF ~models_available THEN drugs_fallback_analysis
    ELSE IF image.dec = "trunc" \/ image.drug.raises THEN drugs_fallback_analysis
    ELSE comprehensive_analysis(image.drug)

(***************************************************************************)
(* Uniform images of one flat colour.  Every pixel has the same value, so  *)
(* a colour mask covers the whole image or nothing, no edge, circle, blob  *)
(* or contour is found and the Laplacian is zero everywhere.  The colours  *)
(* lie well inside or outside every range, so that the JPEG encoding the   *)
(* nudity detector reads back does not move them across a limit.           *)
(***************************************************************************)
SolidColours ==
    {<<255, 255, 255>>,   \* white
     <<0, 0, 0>>,         \* black
     <<255, 0, 0>>,       \* red
     <<0, 255, 0>>,       \* green
     <<0, 0, 255>>,       \* blue
     <<100, 150, 200>>,   \* the colour of test_drugs_detection_baseline
     <<220, 170, 130>>}   \* a light skin tone

\* n / d rounded to the nearest integer
Round(n, d) == (2 * n + d) \div (2 * d)

\* cv2.cvtColor(image_bgr, cv2.COLOR_BGR2HSV) on 8-bit pixels: H in 0..179,
\* S and V in 0..255
RGB2HSV(rgb) ==
    LET r == rgb[1]
        g == rgb[2]
        b == rgb[3]
        v == Max(r, Max(g, b))
        d == v - Min(r, Min(g, b))
        s == IF v = 0 THEN 0 ELSE Round(255 * d, v)
        h == IF d = 0 THEN 0
             ELSE IF v = r THEN Round(30 * (g - b), d)
             ELSE IF v = g THEN 60 + Round(30 * (b - r), d)
             ELSE 120 + Round(30 * (r - g), d)
    IN  <<IF h < 0 THEN h + 180 ELSE h, s, v>>

\* cv2.cvtColor(image_bgr, cv2.COLOR_BGR2GRAY)
RGB2GRAY(rgb) == (299 * rgb[1] + 587 * rgb[2] + 114 * rgb[3] + 500) \div 1000

\* cv2.inRange on one pixel; a range is <<lower, upper>>
InRange(pixel, range) ==
    \A i \in 1..3 : range[1][i] <= pixel[i] /\ pixel[i] <= range[2][i]

\* DrugsDetector._detect_skin_tones: skin_ranges (HSV)
hsv_skin_ranges ==
    {<<<<0, 10, 60>>, <<20, 150, 255>>>>, <<<<0, 10, 50>>, <<25, 120, 230>>>>,
     <<<<0, 20, 80>>, <<25, 180, 255>>>>, <<<<0, 30, 40>>, <<30, 200, 200>>>>,
     <<<<5, 25, 70>>, <<15, 140, 240>>>>}

\* DrugsDetector._detect_pill_colors: color_ranges (HSV)
pill_color_ranges ==
    {<<<<0, 0, 200>>, <<180, 30, 255>>>>, <<<<100, 50, 50>>, <<130, 255, 255>>>>,
     <<<<0, 50, 50>>, <<10, 255, 255>>>>, <<<<20, 50, 50>>, <<30, 255, 255>>>>,
     <<<<40, 50, 50>>, <<80, 255, 255>>>>}

\* DrugsDetector._analyze_powder_colors: white, brown and cream (HSV)
powder_color_ranges ==
    {<<<<0, 0, 150>>, <<180, 80, 255>>>>, <<<<10, 30, 40>>, <<30, 255, 200>>>>,
     <<<<15, 20, 120>>, <<35, 100, 240>>>>}

\* DrugsDetector._analyze_plant_colors: green_ranges (HSV)
green_ranges ==
    {<<<<35, 40, 40>>, <<85, 255, 255>>>>, <<<<40, 50, 50>>, <<80, 255, 200>>>>,
     <<<<25, 30, 30>>, <<95, 255, 180>>>>}

\* NudityDetector._calculate_skin_exposure: skin_ranges (RGB)
rgb_skin_ranges ==
    {<<<<180, 120, 90>>, <<255, 200, 170>>>>, <<<<120, 80, 50>>, <<200, 150, 120>>>>,
     <<<<80, 50, 30>>, <<150, 100, 80>>>>, <<<<200, 150, 140>>, <<255, 220, 200>>>>}

\* the whole image or nothing: the share of pixels inside some range
Covered(pixel, ranges) ==
    IF \E range \in ranges : InRange(pixel, range) THEN 10000 ELSE 0

\* what the drug extractors measure on a uniform image of one colour
SolidSignals(rgb) ==
    LET hsv == RGB2HSV(rgb)
    IN  [raises |-> FALSE, fails |-> "none",
         skin |-> Covered(hsv, hsv_skin_ranges),
         smoothness |-> 10000, organic |-> 0,
         circles |-> -1, blobs |-> 0, shapes |-> 0,
         \* pill_color_pixels adds up the masks of all the ranges
         pill_color_ratio |->
             10000 * Cardinality({range \in pill_color_ranges : InRange(hsv, range)}),
         variance |-> 0, powder_smooth |-> 10000,
         bright |-> IF RGB2GRAY(rgb) > 200 THEN 10000 ELSE 0,
         powder_ratio |-> Covered(hsv, powder_color_ranges),
         patterns |-> 0,
         green_ratio |-> Covered(hsv, green_ranges),
         leaf |-> 0, paraphernalia |-> 0]

\* what _calculate_skin_exposure counts on a square uniform image:
\* skin_pixels adds up the masks of all the ranges
SolidSkin(rgb) ==
    [skin_ratio |->
         1000 * Cardinality({range \in rgb_skin_ranges : InRange(rgb, range)}),
     aspect |-> 100]

(***************************************************************************)
(* The uploaded images of the model.  Attributes no code path reads for a  *)
(* given decode kind are held at their defaults.                           *)
(***************************************************************************)
NoDetections == [raises |-> FALSE, detections |-> <<>>]

Img(dec, nn, skin, drug) ==
    [dec |-> dec, nn |-> nn, skin_ratio |-> skin.skin_ratio,
     aspect |-> skin.aspect, drug |-> drug]

NoSkin == [skin_ratio |-> 0, aspect |-> 100]

\* the backup skin analysis runs on the image: NudeNet reported no nude part
SkinMatters(nn) == ~nn.raises /\ NudeParts(nn.detections) = <<>>

RgbImages ==
    UNION {{Img("rgb", n, s, d) :
               s \in (IF SkinMatters(n) THEN SkinProfiles ELSE {NoSkin}),
               d \in DrugProfiles} : n \in NudeNetOutcomes}

\* a uniform image of one colour: NudeNet finds no body part on it
SolidImg(rgb) == Img("rgb", NoDetections, SolidSkin(rgb), SolidSignals(rgb))

SolidImages == {SolidImg(rgb) : rgb \in SolidColours}

Images ==
    {Img("badhdr", NoDetections, NoSkin, NoDrugSignals),
     Img("trunc", NoDetections, NoSkin, NoDrugSignals)}
    \cup {Img("rgba", NoDetections, NoSkin, d) : d \in DrugProfiles}
    \cup {Img("gray", n, NoSkin, d) : n \in NudeNetOutcomes, d \in DrugProfiles}
    \cup RgbImages
    \cup SolidImages
    \cup {Img("rgb", NoDetections, NoSkin, d) : d \in FailingProfiles}

(***************************************************************************)
(* ModerationService (src/app/moderation.py) and the response models       *)
(***************************************************************************)
\* mutant of should_flag: the comparison admits the threshold itself
should_flag_inclusive(category, confidence) ==
    LET threshold == IF category = "nudity" THEN 3000000
                     ELSE IF category = "drugs" THEN 5000000
                     ELSE 7500000
    IN  confidence >= threshold

\* ModerationService._should_flag
should_flag(category, confidence) ==
    LET threshold == IF category = "nudity" THEN 3000000
                     ELSE IF category = "drugs" THEN 5000000
                     ELSE 7500000
    IN  confidence > threshold

\* Field(ge=0.0, le=1.0) of ModerationCategory.confidence and
\* ModerationResult.overall_confidence
ValidConfidence(c) == 0 <= c /\ c <= One

ModerationCategory(category, confidence, flagged) ==
    [category |-> category, confidence |-> confidence, flagged |-> flagged]

RECURSIVE SumConfidence(_)
SumConfidence(categories) ==
    IF categories = <<>> THEN 0
    ELSE Head(categories).confidence + SumConfidence(Tail(categories))

\* mutant of overall_confidence: the largest confidence instead of the mean
overall_confidence_max(categories) ==
    2 * (CHOOSE c \in {categories[k].confidence : k \in 1..Len(categories)} :
            \A k \in 1..Len(categories) : categories[k].confidence <= c)

\* sum(cat.confidence for cat in categories) / len(categories); the overall
\* confidence is held in half units (1.0 = 2 * One) so that the mean of two
\* confidences is exact
overall_confidence(categories) ==
    (2 * SumConfidence(categories)) \div Len(categories)

\* mutant of ModerationResult: safety decided by the first category alone
ModerationResult_first_only(categories) ==
    [safe |-> ~categories[1].flagged,
     categories |-> categories,
     overall_confidence |-> overall_confidence(categories)]

\* the result moderate_image builds from the analysed categories
ModerationResult(categories) ==
    [safe |-> \A k \in 1..Len(categories) : ~categories[k].flagged,
     categories |-> categories,
     overall_confidence |-> overall_confidence(categories)]

\* mutant of ConservativeConfidence: the confidence given in percent
ConservativeConfidence_percent == 100 * One

\* the confidence the except branch of moderate_image gives every category
ConservativeConfidence == One

\* the result of the except branch of moderate_image
ConservativeResult ==
    [safe |-> FALSE,
     categories |-> [k \in 1..Len(Categories) |->
                        ModerationCategory(Categories[k], ConservativeConfidence, TRUE)],
     overall_confidence |-> 2 * One]

\* pydantic's validation of a ModerationResult
ValidResult(result) ==
    /\ \A k \in 1..Len(result.categories) :
          ValidConfidence(result.categories[k].confidence)
    /\ 0 <= result.overall_confidence /\ result.overall_confidence <= 2 * One

(***************************************************************************)
(* State.                                                                  *)
(*   NUDENET_AVAILABLE, nudity_models_available, drugs_models_available    *)
(*       what start-up found; never written afterwards                     *)
(*   temp_image   the file temp_image.jpg of the shared working directory  *)
(* and, per worker, the call of moderate_image it is executing:            *)
(*   pc           position in the call ("idle" before the first call,      *)
(*                "done" once the call has returned or raised)             *)
(*   image_data   the bytes passed to moderate_image                       *)
(*   created      local `created` of the running image.save                *)
(*   result       the dict the nudity analysis is about to return          *)
(*   analysis     the dict DrugsDetector.analyze_image returned            *)
(*   categories   the list _analyze_categories has built so far            *)
(*   methods      result['method'] of each analysed category, in order     *)
(*   verdict      the ModerationResult returned                            *)
(*   outcome      "returned" or "raised" once the call is over             *)
(*   prev         the verdict of the previous call when this call repeats  *)
(*                it on identical bytes                                    *)
(* and for the HTTP API (src/app/main.py) over its database:               *)
(*   tokens       the documents of tokens_collection: token, isAdmin       *)
(*   usages       the documents of usages_collection, in insertion order   *)
(*   issued       every token document ever inserted                       *)
(*   deleted      the token values whose document was deleted              *)
(*   request      the request being served and the position of its handler *)
(*   response     the response sent for it                                 *)
(*   before       tokens and usages as they were when the request arrived  *)
(***************************************************************************)
VARIABLES NUDENET_AVAILABLE, nudity_models_available, drugs_models_available,
          temp_image, pc, image_data, created, result, analysis, categories,
          methods, verdict, outcome, prev,
          tokens, usages, issued, deleted, request, response, before,
          calc

\* what start-up found, and the build
backends == <<NUDENET_AVAILABLE, nudity_models_available, drugs_models_available,
              BOOL_MASKS_ACCEPTED>>

\* the database and the request in progress
api_vars == <<tokens, usages, issued, deleted, request, response, before>>

\* the moderation service
service_vars == <<temp_image, pc, image_data, created, result, analysis,
                  categories, methods, verdict, outcome, prev>>

vars == <<NUDENET_AVAILABLE, nudity_models_available, drugs_models_available,
          BOOL_MASKS_ACCEPTED, temp_image, pc, image_data, created, result,
          analysis, categories, methods, verdict, outcome, prev,
          tokens, usages, issued, deleted, request, response, before, calc>>

\* no function of the detectors is being evaluated on its own
NoCalc == [fn |-> "none", applied |-> FALSE]

\* Database.create_initial_admin_token: the document start-up inserts into an
\* empty tokens collection
InitialAdminToken == [token |-> 1, isAdmin |-> TRUE]

NoRequest == [endpoint |-> "none", bearer |-> 0, pc |-> "idle"]

NoResponse == [status_code |-> 0, body |-> "none"]

NoVerdict == [safe |-> FALSE, categories |-> <<>>, overall_confidence |-> 0]

NoResult == [method |-> "none", is_nude |-> FALSE, confidence |-> 0]

NoImage == Img("none", NoDetections, NoSkin, NoDrugSignals)

Init ==
    /\ NUDENET_AVAILABLE \in BOOLEAN
    /\ nudity_models_available \in BOOLEAN
    /\ drugs_models_available \in BOOLEAN
    /\ BOOL_MASKS_ACCEPTED \in BOOLEAN
    /\ temp_image = NoFile
    /\ pc = [w \in Workers |-> "idle"]
    /\ image_data = [w \in Workers |-> NoImage]
    /\ created = [w \in Workers |-> FALSE]
    /\ result = [w \in Workers |-> NoResult]
    /\ analysis = [w \in Workers |-> NoResult]
    /\ categories = [w \in Workers |-> <<>>]
    /\ methods = [w \in Workers |-> <<>>]
    /\ verdict = [w \in Workers |-> NoVerdict]
    /\ outcome = [w \in Workers |-> "none"]
    /\ prev = [w \in Workers |-> NoVerdict]
    /\ tokens = {InitialAdminToken}
    /\ usages = <<>>
    /\ issued = {InitialAdminToken}
    /\ deleted = {}
    /\ request = NoRequest
    /\ response = NoResponse
    /\ before = [tokens |-> {InitialAdminToken}, usages |-> <<>>]
    /\ calc = NoCalc

\* the stage of _analyze_categories that handles the k-th category, or the
\* construction of the result once the loop is over
StageOf(k) == IF k <= Len(Categories) THEN Categories[k] ELSE "build"

\* except branch of moderate_image: the conservative result, unless building
\* it raises in turn
Except(w) ==
    /\ pc' = [pc EXCEPT ![w] = "done"]
    /\ verdict' = [verdict EXCEPT ![w] =
                      IF ValidResult(ConservativeResult)
                      THEN ConservativeResult ELSE NoVerdict]
    /\ outcome' = [outcome EXCEPT ![w] =
                      IF ValidResult(ConservativeResult)
                      THEN "returned" ELSE "raised"]
    /\ UNCHANGED <<categories, methods>>

\* mutant of AppendCategory: a category whose detector fell back is left out
AppendCategory_skip_fallback(w, category, res) ==
    /\ categories' = [categories EXCEPT ![w] =
           IF res.method \in {"fallback", "unavailable"} THEN @
           ELSE Append(@, ModerationCategory(category, res.confidence,
                                             should_flag(category, res.confidence)))]
    /\ methods' = [methods EXCEPT ![w] = Append(@, res.method)]
    /\ pc' = [pc EXCEPT ![w] = IF category = "nudity" THEN "drugs" ELSE "build"]
    /\ UNCHANGED <<verdict, outcome>>

\* _analyze_categories, once a category's confidence is known: decide the
\* flag, build the ModerationCategory (validated) and go on with the loop
AppendCategory(w, category, res) ==
    IF ValidConfidence(res.confidence)
    THEN /\ categories' = [categories EXCEPT ![w] =
                Append(@, ModerationCategory(category, res.confidence,
                                             should_flag(category, res.confidence)))]
         /\ methods' = [methods EXCEPT ![w] = Append(@, res.method)]
         /\ pc' = [pc EXCEPT ![w] = StageOf(Len(categories[w]) + 2)]
         /\ UNCHANGED <<verdict, outcome>>
    ELSE Except(w)

\* analyze_image returns: its locals are gone
Return(w) ==
    /\ created' = [created EXCEPT ![w] = FALSE]
    /\ result' = [result EXCEPT ![w] = NoResult]

\* a call of moderate_image begins
Begin(w, image, previous) ==
    /\ pc[w] \in {"idle", "done"}
    /\ image_data' = [image_data EXCEPT ![w] = image]
    /\ prev' = [prev EXCEPT ![w] = previous]
    /\ pc' = [pc EXCEPT ![w] = "open"]
    /\ created' = [created EXCEPT ![w] = FALSE]
    /\ result' = [result EXCEPT ![w] = NoResult]
    /\ analysis' = [analysis EXCEPT ![w] = NoResult]
    /\ categories' = [categories EXCEPT ![w] = <<>>]
    /\ methods' = [methods EXCEPT ![w] = <<>>]
    /\ verdict' = [verdict EXCEPT ![w] = NoVerdict]
    /\ outcome' = [outcome EXCEPT ![w] = "none"]
    /\ UNCHANGED <<backends, api_vars, calc, temp_image>>

\* moderate_image is called with some bytes
Start(w) == \E image \in Images : Begin(w, image, NoVerdict)

\* moderate_image is called again with the bytes of the call that just returned
Repeat(w) ==
    /\ pc[w] = "done"
    /\ outcome[w] = "returned"
    /\ Begin(w, image_data[w], verdict[w])

\* moderate_image: Image.open(io.BytesIO(image_data))
Open(w) ==
    /\ pc[w] = "open"
    /\ IF image_data[w].dec = "badhdr"
       THEN Except(w)
       ELSE /\ pc' = [pc EXCEPT ![w] = StageOf(1)]
            /\ UNCHANGED <<categories, methods, verdict, outcome>>
    /\ UNCHANGED <<backends, api_vars, calc, analysis, temp_image, image_data, created, result, prev>>

\* _detect_nudity_real and NudityDetector.analyze_image up to the moment
\* image.save has opened temp_image.jpg for writing
Nudity(w) ==
    /\ pc[w] = "nudity"
    /\ IF ~NUDENET_AVAILABLE
       THEN /\ AppendCategory(w, "nudity",
                   [method |-> "unavailable", confidence |-> FallbackConfidence])
            /\ UNCHANGED <<temp_image, created>>
       ELSE IF ~nudity_models_available \/ image_data[w].dec = "trunc"
       THEN /\ AppendCategory(w, "nudity", nudity_fallback_analysis)
            /\ UNCHANGED <<temp_image, created>>
       ELSE /\ created' = [created EXCEPT ![w] = (temp_image = NoFile)]
            /\ temp_image' = EmptyFile
            /\ pc' = [pc EXCEPT ![w] = "save"]
            /\ UNCHANGED <<categories, methods, verdict, outcome>>
    /\ UNCHANGED <<backends, api_vars, calc, analysis, image_data, result, prev>>

\* a save that writes the JPEG only into a file this call created and leaves
\* a file it found in place as it was
SaveWrite_keep_stale(w) ==
    /\ pc[w] = "save"
    /\ IF image_data[w].dec = "rgba"
       THEN /\ \E removes \in BOOLEAN :
                 temp_image' = IF removes /\ created[w] THEN NoFile ELSE temp_image
            /\ AppendCategory(w, "nudity", nudity_fallback_analysis)
            /\ Return(w)
       ELSE /\ temp_image' = IF created[w] THEN JpegOf(image_data[w]) ELSE temp_image
            /\ pc' = [pc EXCEPT ![w] = "detect"]
            /\ UNCHANGED <<categories, methods, verdict, outcome, created, result>>
    /\ UNCHANGED <<backends, api_vars, calc, analysis, image_data, prev>>

\* image.save: the JPEG encoder writes the file, or refuses the image's mode;
\* after a refusal the library leaves the file or removes the one it created
SaveWrite(w) ==
    /\ pc[w] = "save"
    /\ IF image_data[w].dec = "rgba"
       THEN /\ \E removes \in BOOLEAN :
                 temp_image' = IF removes /\ created[w] THEN NoFile ELSE temp_image
            /\ AppendCategory(w, "nudity", nudity_fallback_analysis)
            /\ Return(w)
       ELSE /\ temp_image' = JpegOf(image_data[w])
            /\ pc' = [pc EXCEPT ![w] = "detect"]
            /\ UNCHANGED <<categories, methods, verdict, outcome, created, result>>
    /\ UNCHANGED <<backends, api_vars, calc, analysis, image_data, prev>>

\* _detailed_analysis: self.detector.detect(image_path) and the loop over
\* its detections
Detect(w) ==
    /\ pc[w] = "detect"
    /\ IF ~Readable(temp_image) \/ temp_image.nn.raises
       THEN /\ result' = [result EXCEPT ![w] = nudity_fallback_analysis]
            /\ pc' = [pc EXCEPT ![w] = "exists"]
       ELSE IF NudeParts(temp_image.nn.detections) # <<>>
       THEN /\ result' = [result EXCEPT ![w] =
                   detector_result(boosted_confidence(temp_image.nn.detections))]
            /\ pc' = [pc EXCEPT ![w] = "exists"]
       ELSE /\ pc' = [pc EXCEPT ![w] = "backup"]
            /\ UNCHANGED result
    /\ UNCHANGED <<backends, api_vars, calc, analysis, temp_image, image_data, created, categories,
                   methods, verdict, outcome, prev>>

\* _detailed_analysis when no nude part was found: _backup_skin_detection
Backup(w) ==
    /\ pc[w] = "backup"
    /\ result' = [result EXCEPT ![w] =
                     detector_result(backup_skin_detection(temp_image))]
    /\ pc' = [pc EXCEPT ![w] = "exists"]
    /\ UNCHANGED <<backends, api_vars, calc, analysis, temp_image, image_data, created, categories,
                   methods, verdict, outcome, prev>>

\* analyze_image: os.path.exists(temp_path)
Exists(w) ==
    /\ pc[w] = "exists"
    /\ IF temp_image # NoFile
       THEN /\ pc' = [pc EXCEPT ![w] = "remove"]
            /\ UNCHANGED <<categories, methods, verdict, outcome, created, result>>
       ELSE /\ AppendCategory(w, "nudity", result[w])
            /\ Return(w)
    /\ UNCHANGED <<backends, api_vars, calc, analysis, temp_image, image_data, prev>>

\* analyze_image: os.remove(temp_path), which raises when the file is gone
Remove(w) ==
    /\ pc[w] = "remove"
    /\ IF temp_image = NoFile
       THEN /\ AppendCategory(w, "nudity", nudity_fallback_analysis)
            /\ UNCHANGED temp_image
       ELSE /\ temp_image' = NoFile
            /\ AppendCategory(w, "nudity", result[w])
    /\ Return(w)
    /\ UNCHANGED <<backends, api_vars, calc, analysis, image_data, prev>>

\* _detect_drugs_real: detect_drugs(image_data)
Drugs(w) ==
    /\ pc[w] = "drugs"
    /\ analysis' = [analysis EXCEPT ![w] =
                       drugs_analyze_image(drugs_models_available, image_data[w])]
    /\ AppendCategory(w, "drugs", analysis'[w])
    /\ UNCHANGED <<backends, api_vars, calc, temp_image, image_data, created, result, prev>>

\* moderate_image: is_safe, overall_confidence and the ModerationResult; the
\* mean of an empty list raises ZeroDivisionError
Build(w) ==
    /\ pc[w] = "build"
    /\ IF categories[w] # <<>> /\ ValidResult(ModerationResult(categories[w]))
       THEN /\ verdict' = [verdict EXCEPT ![w] = ModerationResult(categories[w])]
            /\ outcome' = [outcome EXCEPT ![w] = "returned"]
            /\ pc' = [pc EXCEPT ![w] = "done"]
            /\ UNCHANGED <<categories, methods>>
       ELSE Except(w)
    /\ UNCHANGED <<backends, api_vars, calc, analysis, temp_image, image_data, created, result, prev>>

\* the steps of a call in progress
Step(w) ==
    \/ Open(w) \/ Nudity(w) \/ SaveWrite(w) \/ Detect(w) \/ Backup(w)
    \/ Exists(w) \/ Remove(w) \/ Drugs(w) \/ Build(w)

(***************************************************************************)
(* Spec: one worker serves the requests one after the other.               *)
(***************************************************************************)
Next == Start(1) \/ Repeat(1) \/ Step(1)

Spec == Init /\ [][Next]_vars

\* a call that has begun runs on: the call chain is synchronous
FairSpec == Spec /\ WF_vars(Step(1))

(***************************************************************************)
(* ConcSpec: two workers with all backends available serve requests at the *)
(* same time from one working directory.                                   *)
(***************************************************************************)
ConcInit ==
    /\ Init
    /\ NUDENET_AVAILABLE /\ nudity_models_available /\ drugs_models_available

\* the requests of ConcSpec: the drug analysis reads nothing shared, so its
\* inputs are held fixed; the inputs of the nudity analysis vary
ConcImages ==
    {i \in Images : /\ i.dec # "gray"
                    /\ i.drug = NoDrugSignals
                    /\ Len(i.nn.detections) <= 1}

\* moderate_image is called by one of the concurrent workers
StartConc(w) == \E image \in ConcImages : Begin(w, image, NoVerdict)

ConcNext == \E w \in Workers : StartConc(w) \/ Step(w)

ConcSpec == ConcInit /\ [][ConcNext]_vars

(***************************************************************************)
(* Properties of the returned verdict.                                     *)
(***************************************************************************)
\* the workers whose call has returned a verdict
Returned == {w \in Workers : pc[w] = "done" /\ outcome[w] = "returned"}

\* the k-th category of worker w's verdict
Cat(w, k) == verdict[w].categories[k]

\* the verdict of the conservative-failure path: unsafe, every category
\* flagged with confidence 1.0
IsConservative(v) ==
    /\ ~v.safe
    /\ \A k \in 1..Len(v.categories) :
          v.categories[k].flagged /\ v.categories[k].confidence = One

\* C1: in every returned verdict each category is flagged exactly when its
\* confidence is strictly above its threshold, 0.3 for nudity and 0.5 for
\* drugs; a confidence equal to the threshold is not flagged.
C1_FlaggedIffAboveThreshold ==
    \A w \in Returned : \A k \in 1..Len(verdict[w].categories) :
        /\ Cat(w, k).category = "nudity"
              => (Cat(w, k).flagged <=> Cat(w, k).confidence > 3000000)
        /\ Cat(w, k).category = "drugs"
              => (Cat(w, k).flagged <=> Cat(w, k).confidence > 5000000)
        /\ Cat(w, k).category \in {"nudity", "drugs"}

\* a verdict whose nudity confidence is exactly 0.3 and whose drugs confidence
\* is exactly 0.5, neither flagged
C1_Witness ==
    \E w \in Returned :
        /\ Len(verdict[w].categories) = 2
        /\ Cat(w, 1).confidence = 3000000 /\ ~Cat(w, 1).flagged
        /\ Cat(w, 2).confidence = 5000000 /\ ~Cat(w, 2).flagged

\* C2: in every returned verdict, safe is true exactly when no category of
\* the verdict is flagged.
C2_SafeIffNoneFlagged ==
    \A w \in Returned :
        verdict[w].safe <=>
            ~(\E k \in 1..Len(verdict[w].categories) : Cat(w, k).flagged)

\* a verdict that is unsafe because only its second category is flagged
C2_Witness ==
    \E w \in Returned :
        /\ Len(verdict[w].categories) = 2
        /\ ~verdict[w].safe
        /\ ~Cat(w, 1).flagged /\ Cat(w, 2).flagged

\* C3: in every returned verdict the overall confidence (half units) is the
\* arithmetic mean of the category confidences, and every category
\* confidence and the overall confidence lie in [0, 1].
C3_OverallIsMean ==
    \A w \in Returned :
        /\ verdict[w].overall_confidence * Len(verdict[w].categories)
              = 2 * SumConfidence(verdict[w].categories)
        /\ 0 <= verdict[w].overall_confidence
        /\ verdict[w].overall_confidence <= 2 * One
        /\ \A k \in 1..Len(verdict[w].categories) :
              0 <= Cat(w, k).confidence /\ Cat(w, k).confidence <= One

\* a verdict of the normal path with two different confidences, one of them
\* at the drugs ceiling 0.98
C3_Witness ==
    \E w \in Returned :
        /\ Len(verdict[w].categories) = 2
        /\ methods[w] = <<"detector", "ai_detection">>
        /\ Cat(w, 2).confidence = 9800000
        /\ Cat(w, 1).confidence \notin {0, 9800000}

\* C4: every returned verdict lists each configured category exactly once,
\* in the order nudity, drugs, whatever failed on the way.
C4_EveryCategoryOnce ==
    \A w \in Returned :
        [k \in 1..Len(verdict[w].categories) |-> Cat(w, k).category]
            = <<"nudity", "drugs">>

\* a verdict returned after the nudity detector raised at run time while both
\* backends were available
C4_Witness ==
    \E w \in Returned :
        /\ NUDENET_AVAILABLE /\ nudity_models_available
        /\ methods[w] = <<"fallback", "ai_detection">>

\* a ModerationResult of the declared shape: one validated category per
\* configured category, a boolean verdict, a validated overall confidence
WellFormed(v) ==
    /\ v.safe \in BOOLEAN
    /\ Len(v.categories) = Len(Categories)
    /\ \A k \in 1..Len(v.categories) :
          /\ v.categories[k].category \in {Categories[j] : j \in 1..Len(Categories)}
          /\ v.categories[k].confidence \in 0..One
          /\ v.categories[k].flagged \in BOOLEAN
    /\ v.overall_confidence \in 0..(2 * One)

\* C5: every call of moderate_image that has begun comes to its end, and it
\* ends by returning a well-formed ModerationResult: no failure of decoding,
\* of a detector or of the construction of the result leaves it as an
\* exception.
C5_AlwaysReturnsWellFormed ==
    /\ [](\A w \in Workers :
             pc[w] = "done" => outcome[w] = "returned" /\ WellFormed(verdict[w]))
    /\ \A w \in Workers : (pc[w] = "open") ~> (pc[w] = "done")

\* a call on bytes whose header does not decode has returned
C5_Witness ==
    \E w \in Returned : image_data[w].dec = "badhdr"

(***************************************************************************)
(* Failure handling.                                                       *)
(***************************************************************************)
\* start-up left the nudity backend unusable
NudityUnavailable == ~NUDENET_AVAILABLE \/ ~nudity_models_available

\* the nudity detector raises at run time on this image: its pixel data does
\* not load, its mode cannot be written as JPEG, or NudeNet raises
NudityRaises(image) ==
    image.dec \in {"trunc", "rgba"} \/ image.nn.raises

\* the drugs detector raises at run time on this image
DrugsRaises(image) == image.dec = "trunc" \/ image.drug.raises

\* C6 (as claimed, with every backend available): for truncated or corrupted
\* bytes, whether decoding fails when the image is opened or when a detector
\* loads the pixel data, the verdict is unsafe and every category is flagged
\* with confidence 1.0.
C6_CorruptedIsConservative ==
    \A w \in Returned :
        (/\ ~NudityUnavailable /\ drugs_models_available
         /\ image_data[w].dec \in {"badhdr", "trunc"})
            => /\ Len(verdict[w].categories) = Len(Categories)
               /\ IsConservative(verdict[w])

C8_RealOrConservative ==
    \A w \in Returned :
        (/\ image_data[w].dec \notin {"badhdr", "trunc"}
         /\ ~NudityUnavailable /\ drugs_models_available
         /\ \E k \in 1..Len(methods[w]) : methods[w][k] = "fallback")
            => IsConservative(verdict[w])

(***************************************************************************)
(* Independence of calls.                                                  *)
(***************************************************************************)
\* what the nudity analysis returns for an image when no other call touches
\* temp_image.jpg: it reads back the JPEG it has just written
SoloNudity(image) ==
    IF ~NUDENET_AVAILABLE
    THEN [method |-> "unavailable", confidence |-> FallbackConfidence]
    ELSE IF ~nudity_models_available \/ NudityRaises(image)
    THEN nudity_fallback_analysis
    ELSE IF NudeParts(image.nn.detections) # <<>>
    THEN detector_result(boosted_confidence(image.nn.detections))
    ELSE detector_result(backup_skin_detection(JpegOf(image)))

\* the verdict of a call of moderate_image that runs alone
SoloVerdict(image) ==
    IF image.dec = "badhdr" THEN ConservativeResult
    ELSE LET nudity == SoloNudity(image).confidence
             drugs  == drugs_analyze_image(drugs_models_available, image).confidence
         IN  ModerationResult(
                 <<ModerationCategory("nudity", nudity, should_flag("nudity", nudity)),
                   ModerationCategory("drugs", drugs, should_flag("drugs", drugs))>>)

\* C9 (as claimed): when requests are served concurrently by workers that
\* share a working directory, each returned verdict is the one the request
\* gets when it runs alone.
C9_ConcurrentEqualsAlone ==
    \A w \in Returned : verdict[w] = SoloVerdict(image_data[w])

\* the (confidence, flagged) pairs of a verdict, category by category
Scores(v) ==
    [k \in 1..Len(v.categories) |->
        <<v.categories[k].category, v.categories[k].confidence,
          v.categories[k].flagged>>]

\* C10: when moderate_image is called twice in sequence on identical bytes,
\* the second verdict has the same confidence and flagged value for every
\* category as the first.
C10_RepeatIsIdentical ==
    \A w \in Returned :
        prev[w] # NoVerdict => Scores(verdict[w]) = Scores(prev[w])

\* a repeated call has returned, and its nudity confidence came from the
\* detector reading the temporary file a second time
C10_Witness ==
    \E w \in Returned :
        /\ prev[w] # NoVerdict
        /\ methods[w] # <<>>
        /\ methods[w][1] = "detector"
        /\ Cat(w, 1).confidence > FallbackConfidence

(***************************************************************************)
(* Verdicts on particular images.                                          *)
(***************************************************************************)
\* start-up found every backend
AllAvailable == ~NudityUnavailable /\ drugs_models_available

\* 0.1, the limit of the claims on uniform images
LowConfidence == 1000000

\* C11 (as claimed, with every backend available and in the build that gives
\* the lower confidences, where boolean masks are rejected): for a uniform
\* image of one flat colour the drugs confidence is below 0.1 and the nudity
\* confidence is below 0.1.
C11_SolidColourLowConfidence ==
    \A w \in Returned :
        (AllAvailable /\ ~BOOL_MASKS_ACCEPTED /\ image_data[w] \in SolidImages)
            => /\ Cat(w, 1).confidence < LowConfidence
               /\ Cat(w, 2).confidence < LowConfidence

\* C12 (as claimed): when at least 30 circles are validated as pill-like and
\* the nudity context is not raised, the fused drugs confidence is greater
\* than 0.8 and drugs is flagged.
C12_ThirtyPillsFlagged ==
    \A w \in Returned :
        (/\ analysis[w].method = "ai_detection"
         /\ image_data[w].drug.circles >= 30
         /\ ~analysis[w].nudity_context_detected)
            => Cat(w, 2).confidence > 8000000 /\ Cat(w, 2).flagged

\* C13 (as claimed, with every backend available and in the build that gives
\* the lower confidences, where boolean masks are rejected): a uniform image
\* of one flat colour is reported safe, with neither category flagged.
C13_SolidColourSafe ==
    \A w \in Returned :
        (AllAvailable /\ ~BOOL_MASKS_ACCEPTED /\ image_data[w] \in SolidImages)
            => /\ verdict[w].safe
               /\ ~Cat(w, 1).flagged /\ ~Cat(w, 2).flagged

(***************************************************************************)
(* Properties of the drugs fusion                                          *)
(***************************************************************************)
\* the workers whose last drugs analysis went through the fusion
Fused == {w \in Workers : analysis[w].method = "ai_detection"}

\* how many of the four signals lie in (low, high], in ten-thousandths
C19_Count(detections, low, high) ==
    Cardinality({k \in DrugKeys : low < detections[k] /\ detections[k] <= high})

\* the multiplier m of the claim, in tenths: the first rule that matches
C19_Multiplier(detections) ==
    LET strong   == C19_Count(detections, 6000, 10000)
        moderate == C19_Count(detections, 3000, 6000)
        weak     == C19_Count(detections, 1000, 3000)
    IN  CASE strong >= 2 -> 20
          [] strong < 2 /\ strong >= 1 /\ moderate >= 1 -> 18
          [] strong = 1 /\ moderate = 0 -> 16
          [] strong = 0 /\ moderate >= 2 -> 14
          [] strong = 0 /\ moderate = 1 -> 12
          [] strong = 0 /\ moderate = 0 /\ weak >= 3 -> 11
          [] OTHER -> 10

\* C19: the drugs fusion result is min(0.98, m * (0.50 pills + 0.35 powder +
\* 0.10 plants + 0.05 paraphernalia)), m being 2.0 for two strong signals,
\* 1.8 for a strong and a moderate one, 1.6 for a strong one, 1.4 for two
\* moderate ones, 1.2 for a moderate one, 1.1 for three weak ones and 1.0
\* otherwise, the first matching rule deciding.
C19_FusionFormula ==
    \A w \in Fused :
        LET d   == analysis[w].detections
            sum == 50 * d.pills + 35 * d.powder + 10 * d.plants
                   + 5 * d.paraphernalia
        IN  analysis[w].confidence = Min(9800000, C19_Multiplier(d) * sum)

\* a fusion of exactly one moderate signal, boosted by 1.2 below the ceiling
C19_Witness ==
    \E w \in Fused :
        LET d == analysis[w].detections
        IN  /\ C19_Count(d, 6000, 10000) = 0
            /\ C19_Count(d, 3000, 6000) = 1
            /\ analysis[w].confidence > 0
            /\ analysis[w].confidence < 9800000
            /\ analysis[w].confidence
                   = 12 * (50 * d.pills + 35 * d.powder + 10 * d.plants
                           + 5 * d.paraphernalia)

\* the outputs of the four extractors on an image
C20_Extracted(drug) ==
    [pills |-> detect_pills_advanced(drug),
     powder |-> detect_powder_advanced(drug),
     plants |-> detect_plants_advanced(drug),
     paraphernalia |-> detect_paraphernalia_advanced(drug)]

\* the rule of the claim over the three context measures as the detector
\* obtains them
C20_Rule(drug) ==
    LET skin       == drug.skin
        smoothness == detect_body_smoothness(drug)
        organic    == drug.organic
    IN  \/ skin > 3000
        \/ (skin > 1500 /\ smoothness > 5000)
        \/ (skin > 2000 /\ organic > 3000)

\* C20: the body context flag is raised exactly when skin > 0.3, or skin >
\* 0.15 with smoothness > 0.5, or skin > 0.2 with organic > 0.3; when it is
\* raised each of the four signals reaches the fusion as 0.3 times the
\* extractor's output, otherwise unchanged.
C20_ContextPenalty ==
    \A w \in Fused :
        LET drug == image_data[w].drug
            d    == analysis[w].detections
            e    == C20_Extracted(drug)
        IN  /\ analysis[w].nudity_context_detected <=> C20_Rule(drug)
            /\ analysis[w].nudity_context_detected
                   => \A k \in DrugKeys : 10 * d[k] = 3 * e[k]
            /\ ~analysis[w].nudity_context_detected
                   => \A k \in DrugKeys : d[k] = e[k]

\* the flag was raised by the third rule alone and the signals were cut
C20_Witness ==
    \E w \in Fused :
        LET drug == image_data[w].drug
        IN  /\ analysis[w].nudity_context_detected
            /\ drug.skin <= 3000
            /\ ~(drug.skin > 1500 /\ detect_body_smoothness(drug) > 5000)
            /\ drug.skin > 2000 /\ drug.organic > 3000
            /\ analysis[w].detections.plants > 0
            /\ 10 * analysis[w].detections.plants
                   = 3 * detect_plants_advanced(drug)

(***************************************************************************)
(* Properties of the feature extractors                                    *)
(***************************************************************************)
\* the image as it would be analysed if no extractor raised
C21_Sound(drug) == [drug EXCEPT !.fails = "none"]

\* C21: when one drug feature extractor raises, its signal is 0.0, the
\* signals of the other extractors are what they are without the failure,
\* the fusion runs on them, and the verdict is neither the conservative
\* verdict nor the 0.05 fallback for drugs.
C21_ExtractorFailureIsLocal ==
    \A w \in Returned :
        LET drug == image_data[w].drug
            d    == analysis[w].detections
            e    == C20_Extracted(C21_Sound(drug))
        IN  (/\ drug.fails # "none"
             /\ drugs_models_available
             /\ ~drug.raises
             /\ image_data[w].dec \in {"rgb", "gray", "rgba"})
                => /\ analysis[w].method = "ai_detection"
                   /\ d[drug.fails] = 0
                   /\ \A k \in DrugKeys \ {drug.fails} :
                          d[k] = Penalised(analysis[w].nudity_context_detected, e[k])
                   /\ analysis[w].confidence = calculate_overall_confidence(d)
                   /\ Cat(w, 2).confidence = analysis[w].confidence
                   /\ ~IsConservative(verdict[w])

\* the plants extractor raised and the syringe alone was fused: 0.8 * 0.05,
\* boosted by 1.6
C21_Witness ==
    \E w \in Returned :
        /\ image_data[w].drug.fails = "plants"
        /\ analysis[w].method = "ai_detection"
        /\ analysis[w].detections.plants = 0
        /\ analysis[w].detections.paraphernalia = 8000
        /\ Cat(w, 2).confidence = 640000
        /\ ~IsConservative(verdict[w])

(***************************************************************************)
(* Properties of the nudity analysis                                       *)
(***************************************************************************)
\* C23 (as claimed): the backup skin analysis runs only when the primary
\* detector returned no detection at all; after a detection of any class the
\* nudity confidence is computed without it.
C23_BackupOnlyWithoutDetections ==
    \A w \in Workers :
        pc[w] = "backup" => temp_image.nn.detections = <<>>

MaxTokens == 3

\* the longest usage log
MaxUsages == 3

\* the bearer values a client presents; 0 is never generated
TokenValues == 0..MaxTokens

\* validate_token's None
None == [token |-> -1, isAdmin |-> FALSE]

\* secrets.token_urlsafe(32): a value no document has ever had
token_urlsafe == Cardinality(issued) + 1

\* Database.get_token / AuthService.validate_token
validate_token(token_value) ==
    IF \E token_data \in tokens : token_data.token = token_value
    THEN CHOOSE token_data \in tokens : token_data.token = token_value
    ELSE None

\* AuthService.get_all_tokens
get_all_tokens == tokens

\* mutant of db_create_token: the document is stored without its isAdmin flag
db_create_token_plain(collection, token_data) ==
    collection \cup {[token_data EXCEPT !.isAdmin = FALSE]}

\* Database.create_token: insert_one
db_create_token(collection, token_data) == collection \cup {token_data}

\* mutant of db_delete_token: the document stays in the collection
db_delete_token_keep(collection, token) == collection

\* Database.delete_token: delete_one({"token": token})
db_delete_token(collection, token) ==
    {token_data \in collection : token_data.token # token}

\* mutant of db_log_usage: the usage document is inserted twice
db_log_usage_twice(collection, usage_data) ==
    Append(Append(collection, usage_data), usage_data)

\* Database.log_usage: insert_one
db_log_usage(collection, usage_data) == Append(collection, usage_data)

\* the uploads of the API model: corrupted or empty bytes, a plain image and
\* a uniform skin-coloured image
ApiImages ==
    {Img("badhdr", NoDetections, NoSkin, NoDrugSignals),
     Img("rgb", NoDetections, NoSkin, NoDrugSignals),
     SolidImg(<<220, 170, 130>>)}

Req(endpoint, bearer, isAdmin, token_value, content_type, image) ==
    [endpoint |-> endpoint, bearer |-> bearer, isAdmin |-> isAdmin,
     token_value |-> token_value, content_type |-> content_type,
     image |-> image, current |-> None, pc |-> "get_current_token"]

\* the requests with a bearer token, named after their handlers
ApiRequests ==
    {Req("create_token", b, a, 0, "", NoImage) : b \in TokenValues, a \in BOOLEAN}
    \cup {Req("get_tokens", b, FALSE, 0, "", NoImage) : b \in TokenValues}
    \cup {Req("delete_token", b, FALSE, v, "", NoImage) :
              b \in TokenValues, v \in TokenValues}
    \cup {Req("moderate_image", b, FALSE, 0, c, i) :
              b \in TokenValues, c \in {"image/jpeg", "text/plain"},
              i \in ApiImages}

AdminEndpoints == {"create_token", "get_tokens", "delete_token"}

\* the endpoint string a handler passes to log_usage, as its path segments
UsageEndpoint(req) ==
    IF req.endpoint = "moderate_image" THEN <<"moderate">>
    ELSE IF req.endpoint = "delete_token" THEN <<"auth", "tokens", req.token_value>>
    ELSE <<"auth", "tokens">>

\* raise HTTPException(status_code): the handler is over
Raise(status_code) ==
    /\ response' = [status_code |-> status_code, body |-> "detail"]
    /\ request' = [request EXCEPT !.pc = "done"]

\* a request arrives
Receive(req) ==
    /\ request.pc \in {"idle", "done"}
    /\ Len(usages) < MaxUsages
    /\ Cardinality(issued) < MaxTokens
    /\ request' = req
    /\ response' = NoResponse
    /\ before' = [tokens |-> tokens, usages |-> usages]
    /\ UNCHANGED <<backends, service_vars, calc, tokens, usages, issued, deleted>>

\* dependency get_current_token
get_current_token ==
    /\ request.pc = "get_current_token"
    /\ LET token_data == validate_token(request.bearer)
       IN  IF token_data = None
           THEN Raise(401)
           ELSE /\ request' =
                      [request EXCEPT
                          !.current = token_data,
                          !.pc = IF request.endpoint \in AdminEndpoints
                                 THEN "get_admin_token" ELSE request.endpoint]
                /\ UNCHANGED response
    /\ UNCHANGED <<backends, service_vars, calc, tokens, usages, issued, deleted, before>>

\* mutant of get_admin_token: any valid token passes
get_admin_token_any ==
    /\ request.pc = "get_admin_token"
    /\ request' = [request EXCEPT !.pc = request.endpoint]
    /\ UNCHANGED response
    /\ UNCHANGED <<backends, service_vars, calc, tokens, usages, issued, deleted, before>>

\* dependency get_admin_token
get_admin_token ==
    /\ request.pc = "get_admin_token"
    /\ IF ~request.current.isAdmin
       THEN Raise(403)
       ELSE /\ request' = [request EXCEPT !.pc = request.endpoint]
            /\ UNCHANGED response
    /\ UNCHANGED <<backends, service_vars, calc, tokens, usages, issued, deleted, before>>

\* POST /auth/tokens up to log_usage: auth_service.create_token(isAdmin)
create_token ==
    /\ request.pc = "create_token"
    /\ LET token_data == [token |-> token_urlsafe, isAdmin |-> request.isAdmin]
       IN  /\ tokens' = db_create_token(tokens, token_data)
           /\ issued' = issued \cup {token_data}
           /\ response' = [status_code |-> 0, body |-> token_data]
    /\ request' = [request EXCEPT !.pc = "log_usage"]
    /\ UNCHANGED <<backends, service_vars, calc, usages, deleted, before>>

\* GET /auth/tokens up to log_usage
get_tokens ==
    /\ request.pc = "get_tokens"
    /\ response' = [status_code |-> 0, body |-> get_all_tokens]
    /\ request' = [request EXCEPT !.pc = "log_usage"]
    /\ UNCHANGED <<backends, service_vars, calc, tokens, usages, issued, deleted, before>>

\* DELETE /auth/tokens/{token_value} up to log_usage
delete_token ==
    /\ request.pc = "delete_token"
    /\ LET success == \E token_data \in tokens :
                          token_data.token = request.token_value
       IN  /\ tokens' = db_delete_token(tokens, request.token_value)
           /\ IF ~success
              THEN Raise(404) /\ UNCHANGED deleted
              ELSE /\ deleted' = deleted \cup {request.token_value}
                   /\ response' = [status_code |-> 0, body |-> "message"]
                   /\ request' = [request EXCEPT !.pc = "log_usage"]
    /\ UNCHANGED <<backends, service_vars, calc, usages, issued, before>>

\* POST /moderate up to log_usage: the content type check, file.read() and
\* moderation_service.moderate_image
moderate_image ==
    /\ request.pc = "moderate_image"
    /\ IF request.content_type # "image/jpeg"
       THEN Raise(400)
       ELSE /\ response' = [status_code |-> 0, body |-> SoloVerdict(request.image)]
            /\ request' = [request EXCEPT !.pc = "log_usage"]
    /\ UNCHANGED <<backends, service_vars, calc, tokens, usages, issued, deleted, before>>

\* auth_service.log_usage(token, endpoint), then the handler returns
log_usage ==
    /\ request.pc = "log_usage"
    /\ usages' = db_log_usage(usages, [token |-> request.current.token,
                                       endpoint |-> UsageEndpoint(request)])
    /\ response' = [response EXCEPT !.status_code = 200]
    /\ request' = [request EXCEPT !.pc = "done"]
    /\ UNCHANGED <<backends, service_vars, calc, tokens, issued, deleted, before>>

\* start-up found every backend
ApiInit ==
    /\ Init
    /\ NUDENET_AVAILABLE /\ nudity_models_available /\ drugs_models_available

ApiNext ==
    \/ \E req \in ApiRequests : Receive(req)
    \/ get_current_token \/ get_admin_token
    \/ create_token \/ get_tokens \/ delete_token \/ moderate_image
    \/ log_usage

ApiSpec == ApiInit /\ [][ApiNext]_vars

(***************************************************************************)
(* Properties of the API                                                   *)
(***************************************************************************)
\* the request has been answered
Answered == request.pc = "done"

\* the token values of a collection
Values(collection) == {token_data.token : token_data \in collection}

\* the caller's token document when the request arrived, None if there was none
CallerBefore ==
    IF request.bearer \in Values(before.tokens)
    THEN CHOOSE token_data \in before.tokens : token_data.token = request.bearer
    ELSE None

\* C14 (as claimed): an authenticated POST /moderate whose upload is empty or
\* holds corrupted image bytes, even with an image/* content type, is
\* answered 400 or 422 and not with a 200 verdict.
C14_CorruptedUploadRejected ==
    (/\ Answered
     /\ request.endpoint = "moderate_image"
     /\ CallerBefore # None
     /\ request.content_type = "image/jpeg"
     /\ request.image.dec = "badhdr")
        => response.status_code \in {400, 422}

\* C15: a token-management request changes the token store or the usage log
\* only when the caller's bearer token is in the store and is an admin token;
\* an unknown token is answered 401 and a non-admin token 403, and both leave
\* the token store and the usage log as they were.
C15_AdminOnlyTokenManagement ==
    (request.endpoint \in AdminEndpoints)
        => /\ (CallerBefore = None \/ ~CallerBefore.isAdmin)
                  => tokens = before.tokens /\ usages = before.usages
           /\ (Answered /\ CallerBefore = None) => response.status_code = 401
           /\ (Answered /\ CallerBefore # None /\ ~CallerBefore.isAdmin)
                  => response.status_code = 403
           /\ (Answered /\ response.status_code \in {401, 403})
                  => CallerBefore = None \/ ~CallerBefore.isAdmin

\* a non-admin token that exists was refused a token-management request
C15_Witness ==
    /\ Answered
    /\ request.endpoint = "create_token"
    /\ CallerBefore # None /\ ~CallerBefore.isAdmin
    /\ response.status_code = 403

\* C16: delete_token(t) succeeds exactly when t was in the store, the API
\* answering 404 otherwise; a deleted token validates to None ever after, and
\* a later request presenting it is not authenticated.
C16_DeleteThenInvalid ==
    /\ (/\ Answered
        /\ request.endpoint = "delete_token"
        /\ response.status_code \notin {401, 403})
           => /\ (response.status_code = 200)
                     <=> (request.token_value \in Values(before.tokens))
              /\ (response.status_code = 404)
                     <=> (request.token_value \notin Values(before.tokens))
              /\ validate_token(request.token_value) = None
    /\ \A t \in deleted : validate_token(t) = None
    /\ (request.pc # "idle" /\ request.bearer \in deleted
            /\ request.bearer \notin Values(before.tokens))
           => /\ request.pc \in {"get_current_token", "done"}
              /\ Answered => response.status_code = 401

\* a request presenting a token deleted earlier was answered 401
C16_Witness ==
    /\ Answered
    /\ request.bearer \in deleted
    /\ request.bearer \notin Values(before.tokens)
    /\ response.status_code = 401

\* C17: a created token validates, until it is deleted, to a Token with the
\* value and the isAdmin flag create_token returned; a value never created
\* validates to None; get_all_tokens is exactly the tokens created and not
\* yet deleted.  The token inserted at start-up counts as created.
C17_CreatedTokensValidate ==
    /\ \A token_data \in issued :
           token_data.token \notin deleted
               => validate_token(token_data.token) = token_data
    /\ \A token_value \in TokenValues :
           token_value \notin Values(issued) => validate_token(token_value) = None
    /\ get_all_tokens = {token_data \in issued : token_data.token \notin deleted}
    /\ (/\ Answered
        /\ request.endpoint = "create_token"
        /\ response.status_code = 200)
           => /\ response.body.isAdmin = request.isAdmin
              /\ validate_token(response.body.token) = response.body

\* an admin token was created and returned after another token was deleted
C17_Witness ==
    /\ Answered
    /\ request.endpoint = "create_token"
    /\ response.status_code = 200
    /\ response.body.isAdmin
    /\ validate_token(response.body.token) = response.body
    /\ deleted # {}

\* the endpoint string of the usage record a served request leaves
C18_Endpoint ==
    CASE request.endpoint = "moderate_image" -> <<"moderate">>
      [] request.endpoint = "delete_token" -> <<"auth", "tokens", request.token_value>>
      [] OTHER -> <<"auth", "tokens">>

\* C18: a request served successfully on an authenticated endpoint appends
\* exactly one usage record, with the caller's token and the endpoint; a
\* request rejected with 401, 403, 404 or 400 appends none.
C18_OneUsagePerServedRequest ==
    Answered
        => /\ response.status_code = 200
                  => usages = Append(before.usages,
                                     [token |-> request.bearer,
                                      endpoint |-> C18_Endpoint])
           /\ response.status_code \in {400, 401, 403, 404}
                  => usages = before.usages
           /\ response.status_code \in {200, 400, 401, 403, 404}

\* a delete request was served and logged after an earlier request was logged
C18_Witness ==
    /\ Answered
    /\ request.endpoint = "delete_token"
    /\ response.status_code = 200
    /\ Len(usages) = Len(before.usages) + 1
    /\ Len(before.usages) > 0

(***************************************************************************)
(* CalcSpec: the pure functions of the detectors, each applied to inputs   *)
(* drawn from a bounded set.  calc holds the function, one or two inputs x *)
(* and y and, once the function was applied, its values fx and fy.         *)
(***************************************************************************)
\* the largest number of validated circles
MaxCircles == 40

Input(fn, x, y) == [fn |-> fn, applied |-> FALSE, x |-> x, y |-> y]

\* two numbers of validated circles, the smaller first
CircleInputs ==
    {Input("detect_circular_objects", m, n) :
        m \in 0..MaxCircles, n \in 0..MaxCircles}

\* the function named fn returned fx on x and fy on y
Apply(fn, fx, fy) ==
    /\ calc.fn = fn
    /\ ~calc.applied
    /\ calc' = [fn |-> fn, applied |-> TRUE, x |-> calc.x, y |-> calc.y,
                fx |-> fx, fy |-> fy]
    /\ UNCHANGED <<backends, service_vars, api_vars>>

\* DrugsDetector._detect_circular_objects, HoughCircles having found circles
ApplyCircles ==
    Apply("detect_circular_objects",
          detect_circular_objects(calc.x), detect_circular_objects(calc.y))

\* the shares of skin-coloured pixels, in thousandths, and the aspect ratios
\* (height / width), in hundredths, of the files of SkinInputs
SkinRatios == {0, 200, 300, 310, 350, 400, 500, 700, 1000}

AspectRatios == {30, 40, 60, 80, 100, 120, 150, 250, 300}

\* a temp_image.jpg on which NudeNet found nothing
SkinFile(skin_ratio, aspect, mode) ==
    [state |-> "jpeg", nn |-> NoDetections, skin_ratio |-> skin_ratio,
     aspect |-> aspect, mode |-> mode]

SkinInputs ==
    {Input("backup_skin_detection", SkinFile(r, a, m), SkinFile(r, a, m)) :
        r \in SkinRatios, a \in AspectRatios, m \in {"RGB", "L"}}

\* NudityDetector._backup_skin_detection
ApplyBackup ==
    Apply("backup_skin_detection",
          backup_skin_detection(calc.x), backup_skin_detection(calc.y))

\* the largest share of a powder colour, in ten-thousandths: the tier limits
\* and a value inside each tier
PowderRatios ==
    {0, 500, 600, 1000, 1200, 2000, 2500, 4000, 4500, 6000, 6500, 8000, 10000}

PowderInputs ==
    {Input("analyze_powder_colors", r1, r2) :
        r1 \in PowderRatios, r2 \in PowderRatios}

\* DrugsDetector._analyze_powder_colors
ApplyPowderColors ==
    Apply("analyze_powder_colors",
          analyze_powder_colors(calc.x), analyze_powder_colors(calc.y))

\* the values of a signal, in ten-thousandths: the limits of the classes of
\* the fusion, the next value above each, and the ends of [0, 1]
SignalGrid == {0, 1000, 1001, 3000, 3001, 6000, 6001, 10000}

\* the outputs of the four extractors on an image
SignalVectors == [DrugKeys -> SignalGrid]

\* two vectors of signals of which the second is the first with one signal
\* raised, or the first itself
FusionInputs ==
    {Input("calculate_overall_confidence", d, [d EXCEPT ![k] = v]) :
        d \in SignalVectors, k \in DrugKeys, v \in SignalGrid}

\* the values an extractor returns on an image with body context
ExtractorGrid == {0, 3000, 3340, 6000, 10000}

PenaltyInputs ==
    {Input("comprehensive_analysis", e, e) : e \in [DrugKeys -> ExtractorGrid]}

\* DrugsDetector._calculate_overall_confidence
ApplyFusion ==
    Apply("calculate_overall_confidence",
          calculate_overall_confidence(calc.x),
          calculate_overall_confidence(calc.y))

\* the signals of _comprehensive_analysis after the penalty
PenalisedSignals(is_likely_nudity, extracted) ==
    [k \in DrugKeys |-> Penalised(is_likely_nudity, extracted[k])]

\* DrugsDetector._comprehensive_analysis from the extractors' outputs on, the
\* context flag being raised
ApplyPenalty ==
    Apply("comprehensive_analysis",
          calculate_overall_confidence(PenalisedSignals(TRUE, calc.x)),
          calculate_overall_confidence(PenalisedSignals(TRUE, calc.y)))

\* the longest list of detections of PartsInputs
MaxParts == 4

\* detections at the score limit 0.25, just above it and well above it
PartKinds ==
    {[class |-> "FEMALE_BREAST_EXPOSED", score |-> 250],
     [class |-> "FEMALE_BREAST_EXPOSED", score |-> 251],
     [class |-> "BELLY_EXPOSED", score |-> 300],
     [class |-> "BUTTOCKS_EXPOSED", score |-> 900],
     [class |-> "FACE_FEMALE", score |-> 900]}

\* the lists of detections with an exposed part above the limit
PartsInputs ==
    {Input("detailed_analysis", d, d) :
        d \in {l \in UNION {[1..n -> PartKinds] : n \in 1..MaxParts} :
                   NudeParts(l) # <<>>}}

\* NudityDetector._detailed_analysis with num_detections > 0
ApplyDetailed ==
    Apply("detailed_analysis",
          detector_result(boosted_confidence(calc.x)),
          detector_result(boosted_confidence(calc.y)))

CalcInputs ==
    CircleInputs \cup SkinInputs \cup PowderInputs \cup FusionInputs
    \cup PenaltyInputs \cup PartsInputs

\* an input is drawn for the evaluation
Draw(input) ==
    /\ calc' = input
    /\ UNCHANGED <<backends, service_vars, api_vars>>

CalcInit ==
    /\ Init
    /\ NUDENET_AVAILABLE /\ nudity_models_available /\ drugs_models_available
    /\ ~BOOL_MASKS_ACCEPTED

CalcNext ==
    \/ calc.fn = "none" /\ \E input \in CalcInputs : Draw(input)
    \/ ApplyCircles
    \/ ApplyBackup
    \/ ApplyPowderColors
    \/ ApplyFusion
    \/ ApplyPenalty
    \/ ApplyDetailed

CalcSpec == CalcInit /\ [][CalcNext]_vars

(***************************************************************************)
(* Properties of the pure functions                                        *)
(***************************************************************************)
\* the function named fn has been applied to calc.x and calc.y
Applied(fn) == calc.fn = fn /\ calc.applied

\* C22 (as claimed): the confidence of the circle detector never decreases
\* with the number of validated circles: for 0 <= m <= n, confidence(m) <=
\* confidence(n); no validated circle gives 0.2 and no value exceeds 0.98.
C22_CircleConfidenceMonotone ==
    (Applied("detect_circular_objects") /\ calc.x <= calc.y)
        => /\ calc.fx <= calc.fy
           /\ calc.x = 0 => calc.fx = 2000
           /\ calc.fy <= 9800

\* the boost of the claim, in tenths, for an aspect ratio in hundredths
C24_Boost(aspect) ==
    IF 120 <= aspect /\ aspect <= 250 THEN 13
    ELSE IF 40 <= aspect /\ aspect <= 80 THEN 11
    ELSE 10

\* C24 (as claimed): on the backup path, whenever the share of skin pixels
\* exceeds 0.3 the nudity confidence is min(0.8, ratio * boost), the boost
\* being 1.3 for aspect ratios in [1.2, 2.5], 1.1 in [0.4, 0.8] and 1.0
\* otherwise; ratio 0.5 at aspect ratio 1.5 gives 0.65.
C24_BackupConfidenceIsBoostedRatio ==
    (/\ Applied("backup_skin_detection")
     /\ calc.x.mode = "RGB"
     /\ calc.x.skin_ratio > 300)
        => calc.fx = Min(8000000,
                         calc.x.skin_ratio * C24_Boost(calc.x.aspect) * 1000)

\* the tier of a powder colour ratio: 0 below the first limit, 5 above the last
C25_Tier(powder_ratio) ==
    Cardinality({limit \in {500, 1000, 2000, 4000, 6000} : powder_ratio > limit})

\* the cap of a tier
C25_Cap(tier) ==
    CASE tier = 5 -> 9500 [] tier = 4 -> 8500 [] tier = 3 -> 7500
      [] tier = 2 -> 6000 [] tier = 1 -> 4000 [] OTHER -> 0

\* C25 (as claimed): the powder colour detector scales the largest of the
\* white, brown and cream ratios in five tiers, a tier for higher ratios
\* multiplying by more than every tier for lower ratios, and never returns
\* more than 0.95.  The multiplier of a tier is output / ratio below its cap.
C25_HigherTierSteeper ==
    Applied("analyze_powder_colors")
        => /\ calc.fx <= 9500
           /\ (/\ 0 < C25_Tier(calc.x)
               /\ C25_Tier(calc.x) < C25_Tier(calc.y)
               /\ calc.fx < C25_Cap(C25_Tier(calc.x))
               /\ calc.fy < C25_Cap(C25_Tier(calc.y)))
                  => calc.fy * calc.x > calc.fx * calc.y

\* C26: when the body context flag is raised the fused drugs confidence is
\* at most 0.33, no penalised signal being strong or moderate, so drugs is
\* not flagged whatever the four extractors returned.
C26_ContextNeverFlagsDrugs ==
    Applied("comprehensive_analysis")
        => /\ \A k \in DrugKeys : PenalisedSignals(TRUE, calc.x)[k] <= 3000
           /\ calc.fx <= 3300000
           /\ ~should_flag("drugs", calc.fx)

\* every extractor at 1.0 with body context: three weak signals and more,
\* fused to 0.33
C26_Witness ==
    /\ Applied("comprehensive_analysis")
    /\ \A k \in DrugKeys : calc.x[k] = 10000
    /\ calc.fx = 3300000

\* C27: the drugs fusion never decreases when a signal rises, the limits
\* 0.1, 0.3 and 0.6 of the classes included.  Raising one signal at a time
\* covers every pair of componentwise ordered vectors of the grid.
C27_FusionMonotone ==
    (/\ Applied("calculate_overall_confidence")
     /\ \A k \in DrugKeys : calc.x[k] <= calc.y[k])
        => calc.fx <= calc.fy

\* a signal rose from moderate to strong across 0.6 and the fusion grew
C27_Witness ==
    /\ Applied("calculate_overall_confidence")
    /\ calc.x.pills = 6000 /\ calc.y.pills = 6001
    /\ \A k \in DrugKeys \ {"pills"} : calc.x[k] = 0 /\ calc.y[k] = 0
    /\ calc.fx < calc.fy

\* C28: with the pills and powder signals at 0 the fused drugs confidence is
\* at most 0.30 for all plants and paraphernalia signals, so drugs is not
\* flagged.
C28_PlantsAndToolsNeverFlag ==
    (/\ Applied("calculate_overall_confidence")
     /\ calc.x.pills = 0 /\ calc.x.powder = 0)
        => calc.fx <= 3000000 /\ ~should_flag("drugs", calc.fx)

\* plants and paraphernalia both at 1.0: two strong signals, fused to 0.30
C28_Witness ==
    /\ Applied("calculate_overall_confidence")
    /\ calc.x.pills = 0 /\ calc.x.powder = 0
    /\ calc.x.plants = 10000 /\ calc.x.paraphernalia = 10000
    /\ calc.fx = 3000000

\* the detections of an exposed class with a score above 0.25
C29_Exposed(detections) ==
    {k \in 1..Len(detections) :
        detections[k].class \in nude_classes /\ detections[k].score > 250}

\* C29: when the primary detector reports three or more detections of an
\* exposed class, each with a score above 0.25, the boosted confidence
\* min(1.0, avg * (1 + 0.1 * (n - 1))) is above 0.3 and nudity is flagged.
C29_ThreePartsFlagged ==
    (/\ Applied("detailed_analysis")
     /\ Cardinality(C29_Exposed(calc.x)) >= 3)
        => /\ calc.fx.confidence > 3000000
           /\ calc.fx.is_nude
           /\ should_flag("nudity", calc.fx.confidence)

\* three exposed parts, each just above 0.25: 0.251 * 1.2 = 0.3012
C29_Witness ==
    /\ Applied("detailed_analysis")
    /\ Len(calc.x) = 3
    /\ \A k \in 1..3 : calc.x[k].score = 251
    /\ calc.fx.confidence = 3012000
    /\ should_flag("nudity", calc.fx.confidence)
=============================================================================
